---- MODULE Spec2Model ----
(***************************************************************************)
(* XiaozhiWebSocket (custom_components/xiaozhi/websocket_server.py): the   *)
(* per-connection handler handle_connection, its dispatch loop and the     *)
(* connection registry (self.connections / self.device_ids).               *)
(*                                                                         *)
(* The handlers are asyncio coroutines: one runs without interruption from *)
(* one await to the next, so each action below is the code between two     *)
(* awaits of one connection's handler.  `await websocket.send(...)` and    *)
(* `await websocket.close(...)` are suspension points; the envelope is     *)
(* written when the handler is resumed.                                    *)
(***************************************************************************)
EXTENDS Integers, Sequences, FiniteSets, TLC

\* Bounds of the model.
NumConns == 2
NumIds == 2
MaxFrames == 2
NumTts == 2
NumSoloTts == 1
MaxTtsFrames == 1

Conns == 1..NumConns
Ids == 1..NumIds

\* Python's None and "" as values of a device id; both are falsy.
NoneId == 0
EmptyId == 0 - 1
IdInputs == {NoneId, EmptyId} \cup Ids
Truthy(x) == x \in Ids

\* "No websocket": the result of a failed lookup.
NoConn == 0

NoMsg == <<"none", NoneId>>
FirstMsgs ==
    {<<"hello", b>> : b \in IdInputs}
        \cup {<<"other", NoneId>>, <<"badjson", NoneId>>, <<"nonobject", NoneId>>}
FrameKinds == {"start_listen", "stop_listen", "abort", "ping", "hello", "unknown", "badjson"}
Paths == {"ok", "bad"}
\* The wakeword field of a wakeword_detected frame ("absent": the frame has none).
Wakewords == {"absent", "hey"}
\* What the pipeline call does with an audio frame.
PipelineOutcomes == {"text", "empty", "raise"}
\* The calls of send_tts_message; a call's message text is its number.
Calls == 1..NumTts

VARIABLES
    connections,  \* self.connections, a dict: a set of <<device id, websocket>> items
    device_ids,   \* self.device_ids
    hooks,        \* on_device_connected / on_device_disconnected are set
    pc,           \* where each connection's handle_connection is suspended
    open,         \* the transport of the connection is open
    path,         \* websocket.path of the request: matches the mount or not
    device_id,    \* the local device_id of handle_connection (the Device-Id header at first)
    msg,          \* the message whose handling is suspended at an await
    closeReason,  \* the reason handle_connection passed to websocket.close
    sent,         \* the envelopes written to the transport, in order
    nrecv,        \* the number of messages read from the transport
    events,       \* the connected / disconnected callbacks made for the connection
    removed,      \* history: the keys this connection's handler has removed
    lastPut,      \* history: the key this connection's handler last stored itself under
    evicted,      \* history: another connection's handler dropped an item of this one
    pipeline_id,  \* self.pipeline_id is set
    decode_errors,\* the "invalid JSON" warnings the dispatch loop logged for the connection
    bus,          \* the xiaozhi_wakeword_detected events fired for the connection's frames
    binlog,       \* history: what became of each audio frame of the connection
    ninvoke,      \* history: the pipeline calls made for the connection's frames
    tts_pc,       \* where each call of send_tts_message is suspended
    tts_arg,      \* its device_id argument
    tts_ws,       \* its local websocket
    tts_res,      \* how it ended for its caller
    tts_log       \* history: the envelopes it wrote, each with the websocket written to

frameVars == <<pipeline_id, decode_errors, bus, binlog, ninvoke>>
ttsVars == <<tts_pc, tts_arg, tts_ws, tts_res, tts_log>>
connVars == <<connections, device_ids, hooks, pc, open, path, device_id, msg,
              closeReason, sent, nrecv, events, removed, lastPut, evicted>>
vars == <<connections, device_ids, hooks, pc, open, path, device_id, msg,
          closeReason, sent, nrecv, events, removed, lastPut, evicted,
          frameVars, ttsVars>>

----------------------------------------------------------------------------
\* The dict self.connections.

Has(reg, d) == \E p \in reg : p[1] = d
Get(reg, d) == IF Has(reg, d) THEN (CHOOSE p \in reg : p[1] = d)[2] ELSE NoConn
PutIfAbsent(reg, d, c) == IF Has(reg, d) THEN reg ELSE reg \cup {<<d, c>>}
\* self.connections[d] = c
Put(reg, d, c) == {p \in reg : p[1] # d} \cup {<<d, c>>}
Del(reg, d) == {p \in reg : p[1] # d}

\* send_tts_message's lookup of the websocket of a device.
Lookup(d) == Get(connections, d)

\* The items of other connections that a change of the dict by `actor` drops.
Evict(actor, reg) ==
    [x \in Conns |->
        evicted[x] \/ (x # actor /\ \E p \in connections : p[2] = x /\ p \notin reg)]

----------------------------------------------------------------------------
\* Pure parts of the handlers.

PathMatchesAny(p) == p \in {"ok", "bad"}
\* `path != self.websocket_path` fails.
PathMatches(p) == p = "ok"

EffectiveIdBodyFirst(header, body) == IF Truthy(body) THEN body ELSE header
\* device_id after `if not device_id: device_id = data.get("device_id")`.
EffectiveId(header, body) == IF Truthy(header) THEN header ELSE body

FirstOutcomeNoTypeCheck(m, header) ==
    IF m[1] \in {"badjson"} THEN "bad_json"
    ELSE IF m[1] = "nonobject" THEN "internal"
    ELSE IF Truthy(EffectiveId(header, m[2])) THEN "register" ELSE "missing_id"
\* What handle_connection does with the first message.
FirstOutcome(m, header) ==
    IF m[1] = "badjson" THEN "bad_json"
    ELSE IF m[1] = "nonobject" THEN "internal"
    ELSE IF m[1] # "hello" THEN "expect_hello"
    ELSE IF Truthy(EffectiveId(header, m[2])) THEN "register" ELSE "missing_id"

AfterHelloNoAck(out) == IF out = "register" THEN "dispatch" ELSE "closing"
\* Where handle_connection is suspended after the first message: at the send of
\* the hello response, or at a close.
AfterHello(out) == IF out = "register" THEN "hello_ack" ELSE "closing"

AuthRebindKeepsOld(reg, old, new, c) == Put(reg, new, c)
AuthRebindSwapped(reg, old, new, c) == Put(Del(reg, new), old, c)
\* _handle_auth_message's update of self.connections.
AuthRebind(reg, old, new, c) == Put(Del(reg, old), new, c)

ReplyToUnknown(kind) ==
    IF kind = "ping" THEN "pong" ELSE IF kind = "unknown" THEN "error_unknown_type" ELSE "none"
ReplyToBadJson(kind) ==
    IF kind = "ping" THEN "pong" ELSE IF kind = "badjson" THEN "error_bad_json" ELSE "none"
ReplyReacksHello(kind) ==
    IF kind = "ping" THEN "pong" ELSE IF kind = "hello" THEN "hello_ack" ELSE "none"
\* The envelope _handle_messages answers a text frame with (auth apart).
Reply(kind) == IF kind = "ping" THEN "pong" ELSE "none"

BinaryReplyAnyResult(outcome) ==
    CASE outcome = "missing" -> "error_missing_pipeline"
      [] outcome = "text" -> "recognition_result"
      [] outcome = "empty" -> "recognition_result"
      [] outcome = "raise" -> "error_processing_error"
\* The envelope _handle_binary_message answers an audio frame with.
BinaryReply(outcome) ==
    CASE outcome = "missing" -> "error_missing_pipeline"
      [] outcome = "text" -> "recognition_result"
      [] outcome = "empty" -> "error_no_response"
      [] outcome = "raise" -> "error_processing_error"

TtsTargetAnyDevice(reg, d) ==
    IF Has(reg, d) THEN Get(reg, d)
    ELSE IF reg = {} THEN NoConn ELSE (CHOOSE p \in reg : TRUE)[2]
\* send_tts_message's `device_id not in self.connections` test and its
\* `websocket = self.connections[device_id]`: NoConn when d is no key.
TtsTarget(reg, d) == Get(reg, d)

TtsSendTargetLookedUpAgain(reg, d, w) == IF Has(reg, d) THEN Get(reg, d) ELSE w
\* The websocket a send of send_tts_message writes to: its local `websocket`,
\* bound once before the first send.
TtsSendTarget(reg, d, w) == w

\* The end of a call that lets the exception of a send reach its caller.
TtsFailureRaised == "raised"
\* The end of send_tts_message when a send raises: the exception is caught and
\* logged, and the call returns.
TtsFailure == "failed_logged"

\* data.get("wakeword", "unknown").
WakewordOf(w) == IF w = "absent" THEN "unknown" ELSE w

\* The frames the dispatch loops have read, over the connections 1..k.
RECURSIVE FramesRead(_, _)
FramesRead(n, k) ==
    IF k = 0 THEN 0 ELSE FramesRead(n, k - 1) + (IF n[k] > 1 THEN n[k] - 1 ELSE 0)

----------------------------------------------------------------------------
\* The object as __init__ leaves it, its pipeline_id apart.
Constructed ==
    /\ connections = {}
    /\ device_ids = {}
    /\ hooks \in BOOLEAN
    /\ pc = [c \in Conns |-> "idle"]
    /\ open = [c \in Conns |-> FALSE]
    /\ path = [c \in Conns |-> "none"]
    /\ device_id = [c \in Conns |-> NoneId]
    /\ msg = [c \in Conns |-> NoMsg]
    /\ closeReason = [c \in Conns |-> "none"]
    /\ sent = [c \in Conns |-> <<>>]
    /\ nrecv = [c \in Conns |-> 0]
    /\ events = [c \in Conns |-> <<>>]
    /\ removed = [c \in Conns |-> {}]
    /\ lastPut = [c \in Conns |-> NoneId]
    /\ evicted = [c \in Conns |-> FALSE]
    /\ decode_errors = [c \in Conns |-> 0]
    /\ bus = [c \in Conns |-> <<>>]
    /\ binlog = [c \in Conns |-> <<>>]
    /\ ninvoke = [c \in Conns |-> 0]
    /\ tts_pc = [k \in Calls |-> "idle"]
    /\ tts_arg = [k \in Calls |-> NoneId]
    /\ tts_ws = [k \in Calls |-> NoConn]
    /\ tts_res = [k \in Calls |-> "none"]
    /\ tts_log = [k \in Calls |-> <<>>]

\* The server as async_setup_entry constructs it: with the id of an existing pipeline.
Init == Constructed /\ pipeline_id = TRUE

\* The server constructed with or without a pipeline id.
InitFrames == Constructed /\ pipeline_id \in BOOLEAN

\* _cleanup_connection(device_id), called from handle_connection's finally.
CleanupConnection(c) ==
    LET d == device_id[c] IN
    IF Truthy(d)
    THEN /\ connections' = Del(connections, d)
         /\ device_ids' = device_ids \ {d}
         /\ removed' = [removed EXCEPT ![c] = @ \cup {d}]
         /\ evicted' = Evict(c, Del(connections, d))
         /\ events' = IF hooks
                      THEN [events EXCEPT ![c] = Append(@, <<"disconnected", d>>)]
                      ELSE events
    ELSE UNCHANGED <<connections, device_ids, removed, evicted, events>>

\* A device connects: handle_connection up to `await websocket.recv()`, or the
\* rejection of a request whose path is not the mount path.  Websockets are
\* numbered in the order they are accepted.
Accept(c, p, h) ==
    /\ pc[c] = "idle"
    /\ \A b \in Conns : b < c => pc[b] # "idle"
    /\ path' = [path EXCEPT ![c] = p]
    /\ IF PathMatches(p)
       THEN /\ pc' = [pc EXCEPT ![c] = "await_hello"]
            /\ open' = [open EXCEPT ![c] = TRUE]
            /\ device_id' = [device_id EXCEPT ![c] = h]
            /\ UNCHANGED closeReason
       ELSE /\ pc' = [pc EXCEPT ![c] = "done"]
            /\ closeReason' = [closeReason EXCEPT ![c] = "path"]
            /\ UNCHANGED <<open, device_id>>
    /\ UNCHANGED <<connections, device_ids, hooks, msg, sent, nrecv, events,
                   removed, lastPut, evicted>>
    /\ UNCHANGED <<frameVars, ttsVars>>

\* The device (or the server's shutdown) closes the transport.
PeerClose(c) ==
    /\ pc[c] \in {"await_hello", "hello_ack", "dispatch", "auth_ack", "reply",
                "pipeline", "binary_reply"}
    /\ open[c]
    /\ open' = [open EXCEPT ![c] = FALSE]
    /\ UNCHANGED <<connections, device_ids, hooks, pc, path, device_id, msg,
                   closeReason, sent, nrecv, events, removed, lastPut, evicted>>
    /\ UNCHANGED <<frameVars, ttsVars>>

\* recv() returns the first message: from json.loads to the next await
\* (the send of the hello response, or a close).
RecvFirst(c, m) ==
    /\ pc[c] = "await_hello"
    /\ open[c]
    /\ nrecv' = [nrecv EXCEPT ![c] = @ + 1]
    /\ msg' = [msg EXCEPT ![c] = m]
    /\ LET out == FirstOutcome(m, device_id[c])
           d == EffectiveId(device_id[c], m[2])
       IN  IF out = "register"
           THEN /\ device_id' = [device_id EXCEPT ![c] = d]
                /\ connections' = Put(connections, d, c)
                /\ device_ids' = device_ids \cup {d}
                /\ lastPut' = [lastPut EXCEPT ![c] = d]
                /\ evicted' = Evict(c, Put(connections, d, c))
                /\ pc' = [pc EXCEPT ![c] = AfterHello(out)]
                /\ UNCHANGED <<open, closeReason>>
           ELSE /\ device_id' = [device_id EXCEPT ![c] =
                                    IF out = "missing_id" THEN d ELSE @]
                /\ closeReason' = [closeReason EXCEPT ![c] = out]
                /\ open' = [open EXCEPT ![c] = FALSE]
                /\ pc' = [pc EXCEPT ![c] = AfterHello(out)]
                /\ UNCHANGED <<connections, device_ids, lastPut, evicted>>
    /\ UNCHANGED <<hooks, path, sent, events, removed>>
    /\ UNCHANGED <<frameVars, ttsVars>>

\* recv() raises ConnectionClosed while the hello is awaited.
HelloClosed(c) ==
    /\ pc[c] = "await_hello"
    /\ ~open[c]
    /\ CleanupConnection(c)
    /\ pc' = [pc EXCEPT ![c] = "done"]
    /\ UNCHANGED <<hooks, open, path, device_id, msg, closeReason, sent, nrecv,
                   lastPut>>
    /\ UNCHANGED <<frameVars, ttsVars>>

\* The hello response is written, the connected callback made and the dispatch
\* loop entered; or the send raises and the handler closes with 1011.
SendHelloAck(c) ==
    /\ pc[c] = "hello_ack"
    /\ IF open[c]
       THEN /\ sent' = [sent EXCEPT ![c] = Append(@, "hello_ack")]
            /\ events' = IF hooks
                         THEN [events EXCEPT ![c] = Append(@, <<"connected", device_id[c]>>)]
                         ELSE events
            /\ msg' = [msg EXCEPT ![c] = NoMsg]
            /\ pc' = [pc EXCEPT ![c] = "dispatch"]
            /\ UNCHANGED closeReason
       ELSE /\ closeReason' = [closeReason EXCEPT ![c] = "internal"]
            /\ pc' = [pc EXCEPT ![c] = "closing"]
            /\ UNCHANGED <<sent, events, msg>>
    /\ UNCHANGED <<connections, device_ids, hooks, open, path, device_id, nrecv,
                   removed, lastPut, evicted>>
    /\ UNCHANGED <<frameVars, ttsVars>>

\* websocket.close returned: the finally clause of handle_connection.
Teardown(c) ==
    /\ pc[c] = "closing"
    /\ CleanupConnection(c)
    /\ pc' = [pc EXCEPT ![c] = "done"]
    /\ UNCHANGED <<hooks, open, path, device_id, msg, closeReason, sent, nrecv,
                   lastPut>>
    /\ UNCHANGED <<frameVars, ttsVars>>

\* The dispatch loop reads a text frame other than auth.
RecvFrame(c, kind) ==
    /\ pc[c] = "dispatch"
    /\ open[c]
    /\ nrecv[c] < 1 + MaxFrames
    /\ nrecv' = [nrecv EXCEPT ![c] = @ + 1]
    /\ IF Reply(kind) # "none"
       THEN /\ msg' = [msg EXCEPT ![c] = <<kind, NoneId>>]
            /\ pc' = [pc EXCEPT ![c] = "reply"]
       ELSE UNCHANGED <<msg, pc>>
    /\ decode_errors' = IF kind = "badjson"
                        THEN [decode_errors EXCEPT ![c] = @ + 1]
                        ELSE decode_errors
    /\ UNCHANGED <<connections, device_ids, hooks, open, path, device_id,
                   closeReason, sent, events, removed, lastPut, evicted>>
    /\ UNCHANGED <<pipeline_id, bus, binlog, ninvoke, ttsVars>>

\* The answer to a frame is written; a send that raises is logged by the loop.
SendReply(c) ==
    /\ pc[c] = "reply"
    /\ sent' = IF open[c] THEN [sent EXCEPT ![c] = Append(@, Reply(msg[c][1]))] ELSE sent
    /\ msg' = [msg EXCEPT ![c] = NoMsg]
    /\ pc' = [pc EXCEPT ![c] = "dispatch"]
    /\ UNCHANGED <<connections, device_ids, hooks, open, path, device_id,
                   closeReason, nrecv, events, removed, lastPut, evicted>>
    /\ UNCHANGED <<frameVars, ttsVars>>

\* The dispatch loop reads an auth frame: _handle_auth_message up to its send.
\* The device_id it is called with is the one _handle_messages was called with.
RecvAuth(c, m) ==
    /\ pc[c] = "dispatch"
    /\ open[c]
    /\ nrecv[c] < 1 + MaxFrames
    /\ nrecv' = [nrecv EXCEPT ![c] = @ + 1]
    /\ msg' = [msg EXCEPT ![c] = <<"auth", m>>]
    /\ pc' = [pc EXCEPT ![c] = "auth_ack"]
    /\ IF Truthy(m) /\ m # device_id[c]
       THEN /\ connections' = AuthRebind(connections, device_id[c], m, c)
            /\ device_ids' = (device_ids \ {device_id[c]}) \cup {m}
            /\ removed' = [removed EXCEPT ![c] = @ \cup {device_id[c]}]
            /\ lastPut' = [lastPut EXCEPT ![c] = m]
            /\ evicted' = Evict(c, AuthRebind(connections, device_id[c], m, c))
       ELSE UNCHANGED <<connections, device_ids, removed, lastPut, evicted>>
    /\ UNCHANGED <<hooks, open, path, device_id, closeReason, sent, events>>
    /\ UNCHANGED <<frameVars, ttsVars>>

\* The auth response is written; when the send raises, so does the send of the
\* error response, and the loop logs the exception.
SendAuthAck(c) ==
    /\ pc[c] = "auth_ack"
    /\ sent' = IF open[c] THEN [sent EXCEPT ![c] = Append(@, "auth_ok")] ELSE sent
    /\ msg' = [msg EXCEPT ![c] = NoMsg]
    /\ pc' = [pc EXCEPT ![c] = "dispatch"]
    /\ UNCHANGED <<connections, device_ids, hooks, open, path, device_id,
                   closeReason, nrecv, events, removed, lastPut, evicted>>
    /\ UNCHANGED <<frameVars, ttsVars>>

\* The dispatch loop ends on the closed transport: _handle_messages returns and
\* handle_connection's finally clause runs.
DispatchClosed(c) ==
    /\ pc[c] = "dispatch"
    /\ ~open[c]
    /\ CleanupConnection(c)
    /\ pc' = [pc EXCEPT ![c] = "done"]
    /\ UNCHANGED <<hooks, open, path, device_id, msg, closeReason, sent, nrecv,
                   lastPut>>
    /\ UNCHANGED <<frameVars, ttsVars>>

\* The dispatch loop reads a wakeword_detected frame: the event is fired with the
\* device_id _handle_messages was called with; nothing is awaited.
RecvWakeword(c, w) ==
    /\ pc[c] = "dispatch"
    /\ open[c]
    /\ nrecv[c] < 1 + MaxFrames
    /\ nrecv' = [nrecv EXCEPT ![c] = @ + 1]
    /\ bus' = [bus EXCEPT ![c] = Append(@, <<device_id[c], WakewordOf(w)>>)]
    /\ UNCHANGED <<connections, device_ids, hooks, pc, open, path, device_id, msg,
                   closeReason, sent, events, removed, lastPut, evicted>>
    /\ UNCHANGED <<pipeline_id, decode_errors, binlog, ninvoke, ttsVars>>

\* The dispatch loop reads a binary frame: _handle_binary_message up to the send
\* of the missing_pipeline error, or up to the pipeline call.
RecvBinary(c) ==
    /\ pc[c] = "dispatch"
    /\ open[c]
    /\ nrecv[c] < 1 + MaxFrames
    /\ nrecv' = [nrecv EXCEPT ![c] = @ + 1]
    /\ IF pipeline_id
       THEN /\ ninvoke' = [ninvoke EXCEPT ![c] = @ + 1]
            /\ msg' = [msg EXCEPT ![c] = <<"binary", NoneId>>]
            /\ pc' = [pc EXCEPT ![c] = "pipeline"]
            /\ UNCHANGED binlog
       ELSE /\ binlog' = [binlog EXCEPT ![c] = Append(@, "missing")]
            /\ msg' = [msg EXCEPT ![c] = <<"missing", NoneId>>]
            /\ pc' = [pc EXCEPT ![c] = "binary_reply"]
            /\ UNCHANGED ninvoke
    /\ UNCHANGED <<connections, device_ids, hooks, open, path, device_id,
                   closeReason, sent, events, removed, lastPut, evicted>>
    /\ UNCHANGED <<pipeline_id, decode_errors, bus, ttsVars>>

\* async_pipeline_from_audio returns a response, returns none, or raises.
PipelineReturns(c, o) ==
    /\ pc[c] = "pipeline"
    /\ binlog' = [binlog EXCEPT ![c] = Append(@, o)]
    /\ msg' = [msg EXCEPT ![c] = <<o, NoneId>>]
    /\ pc' = [pc EXCEPT ![c] = "binary_reply"]
    /\ UNCHANGED <<connections, device_ids, hooks, open, path, device_id,
                   closeReason, sent, nrecv, events, removed, lastPut, evicted>>
    /\ UNCHANGED <<pipeline_id, decode_errors, bus, ninvoke, ttsVars>>

\* The answer to the audio frame is written; when the send raises, so does the
\* send of the processing_error envelope, and the exception is logged.
SendBinaryReply(c) ==
    /\ pc[c] = "binary_reply"
    /\ sent' = IF open[c]
               THEN [sent EXCEPT ![c] = Append(@, BinaryReply(msg[c][1]))]
               ELSE sent
    /\ msg' = [msg EXCEPT ![c] = NoMsg]
    /\ pc' = [pc EXCEPT ![c] = "dispatch"]
    /\ UNCHANGED <<connections, device_ids, hooks, open, path, device_id,
                   closeReason, nrecv, events, removed, lastPut, evicted>>
    /\ UNCHANGED <<frameVars, ttsVars>>

\* send_tts_message(d, text) is called: up to its return for a device that is
\* not connected, or up to the send of the sentence_start envelope.
TtsCall(k, d) ==
    /\ tts_pc[k] = "idle"
    /\ \A j \in Calls : j < k => tts_pc[j] # "idle"
    /\ tts_arg' = [tts_arg EXCEPT ![k] = d]
    /\ IF TtsTarget(connections, d) # NoConn
       THEN /\ tts_ws' = [tts_ws EXCEPT ![k] = TtsTarget(connections, d)]
            /\ tts_pc' = [tts_pc EXCEPT ![k] = "start"]
            /\ UNCHANGED tts_res
       ELSE /\ tts_res' = [tts_res EXCEPT ![k] = "not_connected"]
            /\ tts_pc' = [tts_pc EXCEPT ![k] = "done"]
            /\ UNCHANGED tts_ws
    /\ UNCHANGED <<connVars, frameVars, tts_log>>

\* One of the two sends of send_tts_message: the envelope is written to the
\* local websocket, or the send raises, the exception is logged and the call
\* returns.
TtsSend(k) ==
    /\ tts_pc[k] \in {"start", "end"}
    /\ LET w == TtsSendTarget(connections, tts_arg[k], tts_ws[k])
           env == IF tts_pc[k] = "start" THEN "tts_start" ELSE "tts_end"
       IN  IF open[w]
           THEN /\ sent' = [sent EXCEPT ![w] = Append(@, env)]
                /\ tts_log' = [tts_log EXCEPT ![k] = Append(@, <<w, env>>)]
                /\ tts_pc' = [tts_pc EXCEPT ![k] = IF env = "tts_start" THEN "end" ELSE "done"]
                /\ tts_res' = [tts_res EXCEPT ![k] = IF env = "tts_start" THEN @ ELSE "returned"]
           ELSE /\ tts_res' = [tts_res EXCEPT ![k] = TtsFailure]
                /\ tts_pc' = [tts_pc EXCEPT ![k] = "done"]
                /\ UNCHANGED <<sent, tts_log>>
    /\ UNCHANGED <<connections, device_ids, hooks, pc, open, path, device_id, msg,
                   closeReason, nrecv, events, removed, lastPut, evicted>>
    /\ UNCHANGED <<frameVars, tts_arg, tts_ws>>


Next ==
    \E c \in Conns :
        \/ \E p \in Paths, h \in IdInputs : Accept(c, p, h)
        \/ PeerClose(c)
        \/ \E m \in FirstMsgs : RecvFirst(c, m)
        \/ HelloClosed(c)
        \/ SendHelloAck(c)
        \/ Teardown(c)
        \/ \E k \in FrameKinds : RecvFrame(c, k)
        \/ SendReply(c)
        \/ \E m \in IdInputs : RecvAuth(c, m)
        \/ SendAuthAck(c)
        \/ DispatchClosed(c)

Spec == Init /\ [][Next]_vars

\* The dispatch loops have read fewer than n frames in all.
FrameBudget(n) == FramesRead(nrecv, NumConns) < n

\* The steps of a connection's handler that read no frame in the dispatch loop.
Unread(c) ==
    \/ \E p \in Paths, h \in IdInputs : Accept(c, p, h)
    \/ PeerClose(c)
    \/ \E m \in FirstMsgs : RecvFirst(c, m)
    \/ HelloClosed(c)
    \/ SendHelloAck(c)
    \/ Teardown(c)
    \/ SendReply(c)
    \/ SendAuthAck(c)
    \/ DispatchClosed(c)

\* The connections with wakeword and audio frames as well, their dispatch loops
\* reading MaxFrames frames in all.
NextFrames ==
    \E c \in Conns :
        \/ Unread(c)
        \/ FrameBudget(MaxFrames) /\ \E k \in FrameKinds : RecvFrame(c, k)
        \/ FrameBudget(MaxFrames) /\ \E m \in IdInputs : RecvAuth(c, m)
        \/ FrameBudget(MaxFrames) /\ \E w \in Wakewords : RecvWakeword(c, w)
        \/ FrameBudget(MaxFrames) /\ RecvBinary(c)
        \/ \E o \in PipelineOutcomes : PipelineReturns(c, o)
        \/ SendBinaryReply(c)

SpecFrames == InitFrames /\ [][NextFrames]_vars

\* The connections, their dispatch loops reading MaxTtsFrames frames in all, and
\* the calls of send_tts_message.
NextTts ==
    \/ \E c \in Conns :
        \/ Unread(c)
        \/ FrameBudget(MaxTtsFrames) /\ \E k \in FrameKinds : RecvFrame(c, k)
        \/ FrameBudget(MaxTtsFrames) /\ \E m \in IdInputs : RecvAuth(c, m)
    \/ \E k \in 1..NumSoloTts :
        \/ \E d \in Ids : TtsCall(k, d)
        \/ TtsSend(k)

SpecTts == Init /\ [][NextTts]_vars

\* The steps of a connection's handler when no frame is read after the hello.
Handshake(c) ==
    \/ \E p \in Paths, h \in IdInputs : Accept(c, p, h)
    \/ PeerClose(c)
    \/ \E m \in FirstMsgs : RecvFirst(c, m)
    \/ HelloClosed(c)
    \/ SendHelloAck(c)
    \/ Teardown(c)
    \/ DispatchClosed(c)

\* The connections and NumTts calls of send_tts_message for one device id, which
\* may run at the same time.
NextTtsPair ==
    \/ \E c \in Conns : Handshake(c)
    \/ \E k \in Calls :
        \/ \E d \in Ids : (\A j \in Calls : j < k => tts_arg[j] = d) /\ TtsCall(k, d)
        \/ TtsSend(k)

SpecTtsPair == Init /\ [][NextTtsPair]_vars

----------------------------------------------------------------------------
\* Helpers of the properties.

TornDown(c) == pc[c] # "done" /\ pc'[c] = "done"
Dispatching(c) == pc[c] \in {"dispatch", "auth_ack", "reply", "pipeline", "binary_reply"}
HelloAcks(c) == Cardinality({i \in 1..Len(sent[c]) : sent[c][i] = "hello_ack"})
\* The status handle_connection passes to websocket.close with each reason.
CloseCode(reason) ==
    CASE reason = "internal" -> 1011
      [] reason \in {"path", "missing_id", "expect_hello", "bad_json"} -> 1008
      [] OTHER -> 0

\* C1: when connection c registered device id d and another connection has
\* registered d since (so that d maps to the other one), the teardown of c
\* leaves d mapped to the other connection.
C1_StaleTeardownKeepsFresher ==
    [][\A c \in Conns, d \in Ids :
          (/\ TornDown(c)
           /\ lastPut[c] # NoneId
           /\ d \in {device_id[c], lastPut[c]}
           /\ Lookup(d) \notin {c, NoConn})
          => Get(connections', d) = Lookup(d)]_vars

\* C2: the registry holds at most one websocket per device id, and a lookup of d
\* never yields a connection whose own handler has removed d.
C2_OneSessionPerIdNoRemovedLookup ==
    /\ \A p, q \in connections : p[1] = q[1] => p = q
    /\ \A c \in Conns : \A d \in removed[c] : <<d, c>> \notin connections

\* A connection has removed its key and another connection is registered under
\* that key, while the first is registered under the key it rebound to.
C2_Witness ==
    \E c \in Conns : \E d \in removed[c] :
        /\ Lookup(d) \notin {c, NoConn}
        /\ lastPut[c] # d
        /\ Lookup(lastPut[c]) = c

\* C3: every key of the registry maps to a connection whose handler is bound (it
\* has registered and has not terminated; a handler that is closing after its
\* hello response failed counts as not yet terminated).
C3_RegistryKeysAreBound ==
    \A p \in connections : Dispatching(p[2]) \/ pc[p[2]] \in {"hello_ack", "closing"}

\* C4: the teardown of a connection that never registered leaves the registry
\* unchanged.
C4_UnboundTeardownLeavesRegistry ==
    [][\A c \in Conns :
          (TornDown(c) /\ lastPut[c] = NoneId)
          => connections' = connections /\ device_ids' = device_ids]_vars

\* C5: a connection whose first message is a non-hello envelope or malformed
\* JSON never inserts into the registry, and removes from it only after its
\* transport was closed.
C5_RejectedFirstMessageNoMutation ==
    \A c \in Conns :
        msg[c][1] \in {"other", "badjson"}
        => /\ lastPut[c] = NoneId
           /\ \A p \in connections : p[2] # c
           /\ removed[c] # {} => (~open[c] /\ closeReason[c] \in {"expect_hello", "bad_json"})

\* A connection rejected for its first message has been closed and torn down,
\* and its teardown ran the removal for its header's device id.
C5_Witness ==
    \E c \in Conns :
        /\ msg[c][1] \in {"other", "badjson"}
        /\ pc[c] = "done"
        /\ removed[c] # {}

\* C6: when the handler of a session bound as d1 has handled an auth envelope
\* naming d2 # d1 and goes on to send the response, d1 no longer maps to the
\* session and d2 does; an auth envelope naming no id or the session's own id
\* leaves the registry unchanged; the response is one auth envelope.
C6_AuthRebindMovesEntry ==
    [][\A c \in Conns :
          /\ (pc[c] = "dispatch" /\ pc'[c] = "auth_ack")
             => LET m == msg'[c][2]
                    d1 == lastPut[c]
                IN  IF Truthy(m) /\ m # d1
                    THEN Get(connections', d1) # c /\ Get(connections', m) = c
                    ELSE connections' = connections
          /\ (pc[c] = "auth_ack" /\ pc'[c] = "dispatch" /\ open[c])
             => sent'[c] = Append(sent[c], "auth_ok")]_vars

\* C7: an auth rebind of connection c removes no mapping of another connection
\* (other than replacing the one under the new id), and when c and another
\* connection both registered an id, one of them by a rebind, the teardown of c
\* does not remove the mapping of that id to the other connection.
C7_AuthRebindIdentityChecked ==
    [][\A c \in Conns :
          /\ (pc[c] = "dispatch" /\ pc'[c] = "auth_ack")
             => \A p \in connections :
                    (p[2] # c /\ p[1] # msg'[c][2]) => p \in connections'
          /\ TornDown(c)
             => \A p \in connections :
                    (/\ p[2] # c
                     /\ p[1] \in {device_id[c], lastPut[c]}
                     /\ lastPut[c] # NoneId
                     /\ (lastPut[c] # device_id[c] \/ lastPut[p[2]] # device_id[p[2]]))
                    => p \in connections']_vars

\* C8: a connection that registered on a valid hello is sent at most one hello
\* response, exactly one (its first envelope) unless that send raised, and while
\* it dispatches, has not rebound and has not been evicted by another
\* connection, the lookup of its device id yields it.
C8_HelloAckOnceAndLookup ==
    \A c \in Conns :
        /\ HelloAcks(c) <= 1
        /\ (lastPut[c] # NoneId /\ pc[c] # "hello_ack" /\ closeReason[c] = "none")
           => (HelloAcks(c) = 1 /\ sent[c][1] = "hello_ack")
        /\ (Dispatching(c) /\ ~evicted[c] /\ lastPut[c] = device_id[c])
           => Lookup(device_id[c]) = c

\* A bound connection has read frames after the handshake, among them one that
\* was answered, still has its single hello response and is found by lookup.
C8_Witness ==
    \E c \in Conns :
        /\ pc[c] = "dispatch"
        /\ nrecv[c] = 1 + MaxFrames
        /\ Len(sent[c]) >= 2
        /\ HelloAcks(c) = 1
        /\ Lookup(device_id[c]) = c

\* C9: a connection whose request path is not the mount path is closed with
\* status 1008 without a message read, a registry change or a callback.
C9_BadPathRejected ==
    \A c \in Conns :
        path[c] = "bad"
        => /\ pc[c] = "done"
           /\ closeReason[c] = "path"
           /\ CloseCode(closeReason[c]) = 1008
           /\ nrecv[c] = 0
           /\ sent[c] = <<>>
           /\ events[c] = <<>>
           /\ lastPut[c] = NoneId
           /\ removed[c] = {}

\* A request with a wrong path was rejected while another connection is
\* registered and the callbacks are set.
C9_Witness ==
    \E c \in Conns :
        /\ path[c] = "bad"
        /\ hooks
        /\ \E p \in connections : p[2] # c

\* C10: on a hello the session is registered under the Device-Id header when it
\* is non-empty, otherwise under the device_id of the hello; when neither is
\* non-empty the connection is closed for the missing device id, nothing is
\* sent and the registry is not changed.
C10_EffectiveDeviceId ==
    [][\A c \in Conns :
          /\ (pc[c] = "await_hello" /\ nrecv'[c] = nrecv[c] + 1 /\ msg'[c][1] = "hello")
             => LET h == device_id[c]
                    b == msg'[c][2]
                    x == IF Truthy(h) THEN h ELSE b
                IN  IF Truthy(h) \/ Truthy(b)
                    THEN /\ pc'[c] = "hello_ack"
                         /\ lastPut'[c] = x
                         /\ <<x, c>> \in connections'
                         /\ x \in device_ids'
                    ELSE /\ pc'[c] = "closing"
                         /\ closeReason'[c] = "missing_id"
                         /\ connections' = connections
                         /\ device_ids' = device_ids
          /\ closeReason'[c] = "missing_id"
             => (sent'[c] = <<>> /\ lastPut'[c] = NoneId /\ removed'[c] = {})]_vars

\* A hello whose body names a device id other than the header's has been
\* registered under the header's.
C10_Witness ==
    \E c \in Conns :
        /\ pc[c] = "hello_ack"
        /\ msg[c][1] = "hello"
        /\ Truthy(msg[c][2])
        /\ msg[c][2] # device_id[c]
        /\ Lookup(device_id[c]) = c

\* C11: a call of send_tts_message for a device id that is no key of the
\* registry when the call is made writes nothing to any transport, leaves the
\* registry as it is and is over at once.
C11_TtsUnregisteredSendsNothing ==
    [][\A k \in Calls :
          (/\ tts_pc[k] = "idle"
           /\ tts_pc'[k] # "idle"
           /\ ~Has(connections, tts_arg'[k]))
          => (/\ sent' = sent
              /\ connections' = connections
              /\ device_ids' = device_ids
              /\ tts_log'[k] = <<>>
              /\ tts_pc'[k] = "done")]_vars

\* A call for an unregistered id has returned while another device is registered.
C11_Witness ==
    \E k \in Calls :
        /\ tts_pc[k] = "done"
        /\ tts_res[k] = "not_connected"
        /\ ~Has(connections, tts_arg[k])
        /\ \E p \in connections : open[p[2]]

\* The envelopes of a kind in a sequence of envelopes.
CountOf(seq, env) == Cardinality({i \in 1..Len(seq) : seq[i] = env})
\* The calls of send_tts_message that wrote an envelope of a kind to a websocket.
TtsWrites(c, env) ==
    Cardinality({k \in Calls : \E i \in 1..Len(tts_log[k]) : tts_log[k][i] = <<c, env>>})

\* C12: a call of send_tts_message for a registered id takes the websocket
\* registered under the id when the call is made, and writes to that websocket
\* and to no other: first the sentence_start envelope, then the sentence_end
\* envelope, two envelopes in all when the call returns from its second send,
\* whatever becomes of the id in the registry between the two sends.
C12_TtsTwoEnvelopesSameTransport ==
    /\ [][\A k \in Calls :
            (tts_pc[k] = "idle" /\ tts_pc'[k] = "start")
            => (/\ Has(connections, tts_arg'[k])
                /\ tts_ws'[k] = Get(connections, tts_arg'[k]))]_vars
    /\ [](\A k \in Calls :
            /\ tts_res[k] = "returned"
               => tts_log[k] = << <<tts_ws[k], "tts_start">>, <<tts_ws[k], "tts_end">> >>
            /\ tts_pc[k] = "end" => tts_log[k] = << <<tts_ws[k], "tts_start">> >>
            /\ tts_pc[k] \in {"idle", "start"} => tts_log[k] = <<>>
            /\ Len(tts_log[k]) <= 2)
    /\ [](\A c \in Conns :
            /\ CountOf(sent[c], "tts_start") = TtsWrites(c, "tts_start")
            /\ CountOf(sent[c], "tts_end") = TtsWrites(c, "tts_end"))

\* Between the two sends of a call the id is registered to another websocket,
\* or to none, and the websocket of the call is still open.
C12_Witness ==
    \E k \in Calls :
        /\ tts_pc[k] = "end"
        /\ open[tts_ws[k]]
        /\ Get(connections, tts_arg[k]) # tts_ws[k]
        /\ \E c \in Conns : c # tts_ws[k] /\ open[c] /\ lastPut[c] = tts_arg[k]

\* C13: when a send of send_tts_message fails (the call found a websocket and
\* ended without writing both envelopes), the call ends with the failure raised
\* to its caller; and no step of send_tts_message changes the registry.
C13_TtsWriteFailureSurfaced ==
    /\ [](\A k \in Calls :
            (tts_pc[k] = "done" /\ tts_ws[k] # NoConn /\ Len(tts_log[k]) < 2)
            => tts_res[k] = TtsFailureRaised)
    /\ [][(tts_pc' # tts_pc)
            => (connections' = connections /\ device_ids' = device_ids)]_vars

\* The envelope the handler of audio frames owes for what became of a frame.
EnvelopeOwed(o) ==
    IF o = "missing" THEN "error_missing_pipeline"
    ELSE IF o = "text" THEN "recognition_result"
    ELSE IF o = "empty" THEN "error_no_response"
    ELSE "error_processing_error"
AudioEnvelopes ==
    {"error_missing_pipeline", "recognition_result", "error_no_response",
     "error_processing_error"}

\* C14: an audio frame of a bound session whose transport stays open is answered
\* with one envelope on that transport: error missing_pipeline, without a
\* pipeline call, when no pipeline id is set; else after one pipeline call
\* recognition_result when the call returns text, error no_response when it
\* returns nothing, error processing_error when it raises.  Answering closes
\* nothing, leaves the registry alone and returns to the dispatch loop.
C14_BinaryFrameOneEnvelope ==
    /\ [][\A c \in Conns :
            (pc[c] = "binary_reply" /\ pc'[c] # "binary_reply")
            => (/\ Len(binlog[c]) > 0
                /\ sent'[c] = IF open[c]
                               THEN Append(sent[c], EnvelopeOwed(binlog[c][Len(binlog[c])]))
                               ELSE sent[c]
                /\ \A b \in Conns : b # c => sent'[b] = sent[b]
                /\ pc'[c] = "dispatch"
                /\ closeReason' = closeReason
                /\ open' = open
                /\ connections' = connections
                /\ device_ids' = device_ids
                /\ ninvoke' = ninvoke)]_vars
    /\ [](\A c \in Conns :
            /\ ninvoke[c] = IF pipeline_id
                            THEN Len(binlog[c]) + (IF pc[c] = "pipeline" THEN 1 ELSE 0)
                            ELSE 0
            /\ \A i \in 1..Len(binlog[c]) : (binlog[c][i] = "missing") <=> ~pipeline_id
            /\ (open[c] /\ pc[c] = "dispatch")
               => \A e \in AudioEnvelopes :
                    CountOf(sent[c], e)
                        = Cardinality({i \in 1..Len(binlog[c]) : EnvelopeOwed(binlog[c][i]) = e}))

\* A registered session has answered two audio frames that fared differently
\* and is in its dispatch loop, its transport open.
C14_Witness ==
    \E c \in Conns :
        /\ open[c]
        /\ pc[c] = "dispatch"
        /\ Get(connections, lastPut[c]) = c
        /\ Len(binlog[c]) = 2
        /\ binlog[c][1] # binlog[c][2]
        /\ CountOf(sent[c], "hello_ack") = 1
        /\ Len(sent[c]) = 3

\* With no pipeline id set, a session has answered an audio frame.
C14_WitnessMissingPipeline ==
    \E c \in Conns :
        /\ ~pipeline_id
        /\ open[c]
        /\ pc[c] = "dispatch"
        /\ binlog[c] # <<>>
        /\ ninvoke[c] = 0

\* C15: a text frame that is no JSON, read by the dispatch loop, is logged and
\* nothing else: no envelope is written on any transport, the registry and the
\* callbacks made stay as they are, nothing is closed, and the handler is in its
\* dispatch loop as before, with the same device id, ready for the next frame.
C15_BadJsonFrameKeepsSession ==
    [][\A c \in Conns :
          decode_errors'[c] # decode_errors[c]
          => (/\ Dispatching(c)
              /\ nrecv[c] >= 1
              /\ sent' = sent
              /\ connections' = connections
              /\ device_ids' = device_ids
              /\ events' = events
              /\ open' = open
              /\ closeReason' = closeReason
              /\ device_id' = device_id
              /\ msg' = msg
              /\ pc'[c] = "dispatch")]_vars

\* A registered session that has logged an undecodable frame has read a ping
\* after it and is about to answer it.
C15_Witness ==
    \E c \in Conns :
        /\ decode_errors[c] = 1
        /\ nrecv[c] = 3
        /\ pc[c] = "reply"
        /\ msg[c][1] = "ping"
        /\ open[c]
        /\ Get(connections, device_id[c]) = c
        /\ closeReason[c] = "none"

\* C16: every disconnected callback made for a connection comes after a
\* connected callback made for the same connection.
C16_DisconnectedOnlyAfterConnected ==
    \A c \in Conns :
        \A i \in 1..Len(events[c]) :
            events[c][i][1] = "disconnected"
            => \E j \in 1..(i - 1) : events[c][j][1] = "connected"

\* C17: when a handler stores its websocket under an id that maps to another
\* websocket, the id maps to the new websocket from then on and the other
\* connection is left as it is: not closed, nothing written to it, its handler
\* where it was.  The handler of a connection that lost its item still answers
\* a ping with a pong and can read a further frame.  A call of send_tts_message
\* takes the websocket the id maps to when the call is made, and its sends
\* write to no other websocket.
C17_EvictionLeavesOldTransport ==
    /\ [][\A c \in Conns, b \in Conns, d \in Ids :
            (/\ b # c
             /\ Get(connections, d) = b
             /\ \/ pc[c] = "await_hello" /\ pc'[c] = "hello_ack" /\ device_id'[c] = d
                \/ pc[c] = "dispatch" /\ pc'[c] = "auth_ack" /\ msg'[c][2] = d
                                     /\ d # device_id[c])
            => (/\ Get(connections', d) = c
                /\ open'[b] = open[b]
                /\ sent'[b] = sent[b]
                /\ pc'[b] = pc[b]
                /\ msg'[b] = msg[b]
                /\ closeReason'[b] = closeReason[b])]_vars
    /\ [][\A b \in Conns :
            (/\ evicted[b]
             /\ open[b]
             /\ pc[b] = "reply"
             /\ msg[b][1] = "ping"
             /\ pc'[b] # pc[b])
            => (sent'[b] = Append(sent[b], "pong") /\ pc'[b] = "dispatch")]_vars
    /\ [](\A b \in Conns :
            (evicted[b] /\ open[b] /\ pc[b] = "dispatch" /\ nrecv[b] < 1 + MaxFrames)
            => ENABLED RecvFrame(b, "ping"))
    /\ [][\A k \in Calls :
            /\ (tts_pc[k] = "idle" /\ tts_pc'[k] = "start")
               => <<tts_arg'[k], tts_ws'[k]>> \in connections
            /\ tts_log'[k] # tts_log[k]
               => \A b \in Conns : b # tts_ws[k] => sent'[b] = sent[b]]_vars

\* A connection that lost its item to a later hello for the same id is still
\* open and about to answer a ping, while a call of send_tts_message for the id
\* has written its first envelope to the connection of the later hello.
C17_Witness ==
    \E b \in Conns, c \in Conns, k \in Calls :
        /\ b # c
        /\ evicted[b]
        /\ open[b]
        /\ pc[b] = "reply"
        /\ msg[b][1] = "ping"
        /\ lastPut[b] = lastPut[c]
        /\ Get(connections, lastPut[b]) = c
        /\ tts_arg[k] = lastPut[b]
        /\ tts_ws[k] = c
        /\ tts_log[k] = << <<c, "tts_start">> >>
        /\ CountOf(sent[b], "tts_start") = 0

\* The envelopes the dispatch loop writes.
DispatcherEnvelopes == {"pong", "auth_ok"} \cup AudioEnvelopes

\* C18: on every connection the hello response is the first envelope written:
\* the handler reads no frame in its dispatch loop, writes no answer of the
\* loop and makes no connected callback before it has written it.
C18_HelloAckFirst ==
    \A c \in Conns :
        (\/ Dispatching(c)
         \/ nrecv[c] >= 2
         \/ \E i \in 1..Len(sent[c]) : sent[c][i] \in DispatcherEnvelopes
         \/ \E i \in 1..Len(events[c]) : events[c][i][1] = "connected"
         \/ bus[c] # <<>>
         \/ ninvoke[c] > 0)
        => (Len(sent[c]) >= 1 /\ sent[c][1] = "hello_ack")

\* A connection has made its connected callback and its dispatch loop has
\* answered a ping and an audio frame after the hello response.
C18_Witness ==
    \E c \in Conns :
        /\ events[c] = << <<"connected", device_id[c]>> >>
        /\ Len(sent[c]) = 3
        /\ sent[c][1] = "hello_ack"
        /\ CountOf(sent[c], "pong") = 1
        /\ \E e \in AudioEnvelopes : CountOf(sent[c], e) = 1

\* C19: a connection whose first message is no hello envelope never registers,
\* and is closed with the malformed-message reason when the message is no JSON
\* or JSON that is no object, and with the expected-hello reason when it is an
\* envelope of another type.
C19_FirstMessageRejectedByCause ==
    \A c \in Conns :
        (nrecv[c] >= 1 /\ msg[c][1] \in {"badjson", "nonobject", "other"})
        => (/\ lastPut[c] = NoneId
            /\ pc[c] \in {"closing", "done"}
            /\ closeReason[c] = IF msg[c][1] = "other" THEN "expect_hello" ELSE "bad_json")

\* C20: a wakeword_detected frame read by the dispatch loop of a connection
\* fires one event, which carries the id the connection last registered itself
\* under (the id of its hello, or of its latest auth rebind) and the wakeword
\* of the frame, and writes no envelope.
C20_WakewordEventCarriesCurrentId ==
    [][\A c \in Conns :
          bus'[c] # bus[c]
          => (/\ \E w \in Wakewords :
                    bus'[c] = Append(bus[c], <<lastPut[c], WakewordOf(w)>>)
              /\ sent' = sent
              /\ \A b \in Conns : b # c => bus'[b] = bus[b])]_vars

\* C21: a text frame read by the dispatch loop that is no auth frame changes
\* neither the registry nor the device id of the handler and writes nothing
\* when it is read; only a ping leaves an answer due, and the answer, written
\* when the transport is still open, is one pong, after which the handler is
\* in its dispatch loop with nothing due.
C21_DispatchFrameEffects ==
    /\ [][\A c \in Conns :
            (/\ nrecv[c] >= 1
             /\ nrecv'[c] = nrecv[c] + 1
             /\ pc'[c] # "auth_ack")
            => (/\ connections' = connections
                /\ device_ids' = device_ids
                /\ device_id' = device_id
                /\ lastPut' = lastPut
                /\ sent' = sent
                /\ events' = events
                /\ open' = open
                /\ \/ pc'[c] = "dispatch" /\ msg'[c] = NoMsg
                   \/ pc'[c] = "reply" /\ msg'[c][1] = "ping")]_vars
    /\ [][\A c \in Conns :
            (pc[c] = "reply" /\ pc'[c] # "reply")
            => (/\ msg[c][1] = "ping"
                /\ sent'[c] = IF open[c] THEN Append(sent[c], "pong") ELSE sent[c]
                /\ \A b \in Conns : b # c => sent'[b] = sent[b]
                /\ pc'[c] = "dispatch"
                /\ msg'[c] = NoMsg
                /\ connections' = connections
                /\ device_ids' = device_ids
                /\ device_id' = device_id)]_vars

\* A registered session has read a ping and another frame that is no auth
\* frame, and has written one pong after its hello response.
C21_Witness ==
    \E c \in Conns :
        /\ nrecv[c] = 3
        /\ pc[c] = "dispatch"
        /\ open[c]
        /\ decode_errors[c] = 0
        /\ sent[c] = <<"hello_ack", "pong">>
        /\ lastPut[c] = device_id[c]
        /\ Get(connections, device_id[c]) = c

\* The keys of the dict.
Keys(reg) == {p[1] : p \in reg}

\* C22: between any two steps of the handlers, self.device_ids (what
\* get_connected_devices returns) is the set of keys of self.connections.
C22_DeviceIdsAreRegistryKeys ==
    device_ids = Keys(connections)

\* A session registered under the id of its auth frame, not that of its hello,
\* is the only one registered after another connection registered and was
\* torn down.
C22_Witness ==
    \E c \in Conns, b \in Conns :
        /\ b # c
        /\ lastPut[c] # device_id[c]
        /\ Truthy(lastPut[c])
        /\ pc[b] = "done"
        /\ removed[b] # {}
        /\ lastPut[b] # NoneId
        /\ device_ids = {lastPut[c]}
        /\ connections = {<<lastPut[c], c>>}

\* The keys of the dict that map to a websocket.
KeysOf(reg, c) == {p[1] : p \in {q \in reg : q[2] = c}}

\* C23: a websocket is the value of at most one key of the registry, and when
\* the handler of a connection has read an auth frame that names a device id,
\* the websocket of the connection is the value of that key and of no other.
C23_OneKeyPerTransport ==
    /\ [](\A c \in Conns : Cardinality(KeysOf(connections, c)) <= 1)
    /\ [][\A c \in Conns :
            (pc[c] = "dispatch" /\ pc'[c] = "auth_ack" /\ Truthy(msg'[c][2]))
            => KeysOf(connections', c) = {msg'[c][2]}]_vars

TtsAt(seq) == {i \in 1..Len(seq) : seq[i] \in {"tts_start", "tts_end"}}

\* C25: on every transport a sentence_start envelope is not followed by another
\* sentence_start envelope before a sentence_end envelope is written.
C25_TtsCallsNotInterleaved ==
    \A c \in Conns :
        \A i \in TtsAt(sent[c]), j \in TtsAt(sent[c]) :
            (i < j /\ sent[c][i] = "tts_start" /\ sent[c][j] = "tts_start")
            => \E m \in TtsAt(sent[c]) : i < m /\ m < j /\ sent[c][m] = "tts_end"

====
